---- MODULE Spec2Model ----
(***************************************************************************)
(* State machine of the todo application of App.tsx (the same component    *)
(* is repeated in components/ScreenContent.tsx): the React state (todos,   *)
(* isDark, input, filter), the two AsyncStorage items '@todos' and         *)
(* '@theme', and the storage requests that are in flight.                  *)
(*                                                                         *)
(* Strings are sequences of one-character strings, so that trim() and      *)
(* Date.now().toString() are computed.  A stored item is a sequence of     *)
(* JSON tokens, so that JSON.stringify and JSON.parse are computed.        *)
(* AsyncStorage serves its requests one at a time in the order they were   *)
(* issued: queue is that order.  last and issued are history: the outcome  *)
(* of the latest intent that left no request, and the number of requests   *)
(* the intents of the session have issued.                                 *)
(***************************************************************************)
EXTENDS Integers, Sequences, FiniteSets, TLC

VARIABLES todos, isDark, input, filter, store, queue, saved, now, alert,
          errors, unhandled, last, issued

vars == <<todos, isDark, input, filter, store, queue, saved, now, alert,
          errors, unhandled, last, issued>>

\* Bounds of the model.
MaxTime == 2
MaxIntents == 2
MaxErrors == 1

STORAGE_KEY == "@todos"
THEME_KEY == "@theme"

-----------------------------------------------------------------------------
\* Strings

\* String.prototype.trim
RECURSIVE TrimStart(_)
TrimStart(s) ==
  IF Len(s) > 0 /\ Head(s) = " " THEN TrimStart(Tail(s)) ELSE s

RECURSIVE TrimEnd(_)
TrimEnd(s) ==
  IF Len(s) > 0 /\ s[Len(s)] = " " THEN TrimEnd(SubSeq(s, 1, Len(s) - 1)) ELSE s

Trim(s) == TrimEnd(TrimStart(s))

DigitChars == <<"0", "1", "2", "3", "4", "5", "6", "7", "8", "9">>

\* Number.prototype.toString, base 10
RECURSIVE NumberToString(_)
NumberToString(n) ==
  IF n < 10 THEN <<DigitChars[n + 1]>>
  ELSE NumberToString(n \div 10) \o <<DigitChars[(n % 10) + 1]>>

\* What the user can type into the TextInput.
Inputs == { <<>>, <<" ">>, <<" ", "b", " ">> }

-----------------------------------------------------------------------------
\* JSON values and their text

Todo(id, text, completed) == [id |-> id, text |-> text, completed |-> completed]

\* A JavaScript value held in the todos state: an array of Todo, or null,
\* or an object that is not an array.
Arr(items) == [kind |-> "array", items |-> items]
JsonNull == [kind |-> "null", items |-> <<>>]
JsonObject == [kind |-> "object", items |-> <<>>]

\* getItem's result for a key that has no item
NullItem == << <<"<no item>">> >>

Quote(s) == <<"\"">> \o s
IsStringTok(t) == Len(t) >= 1 /\ t[1] = "\""
Unquote(t) == Tail(t)
BoolTok(b) == IF b THEN <<"true">> ELSE <<"false">>
IsBoolTok(t) == t = <<"true">> \/ t = <<"false">>

StringifyTodo(t) ==
  << <<"{">>, Quote(<<"id">>), Quote(t.id), Quote(<<"text">>), Quote(t.text),
     Quote(<<"completed">>), BoolTok(t.completed), <<"}">> >>

RECURSIVE StringifyItems(_)
StringifyItems(items) ==
  IF Len(items) = 0 THEN <<>>
  ELSE IF Len(items) = 1 THEN StringifyTodo(items[1])
  ELSE StringifyTodo(Head(items)) \o << <<",">> >> \o StringifyItems(Tail(items))

JSONstringify(v) ==
  CASE v.kind = "array" -> << <<"[">> >> \o StringifyItems(v.items) \o << <<"]">> >>
    [] v.kind = "null" -> << <<"null">> >>
    [] OTHER -> << <<"{">>, <<"}">> >>

TodoTokens == 8

IsTodoText(toks) ==
  /\ Len(toks) = TodoTokens
  /\ toks[1] = <<"{">>
  /\ toks[2] = Quote(<<"id">>)
  /\ IsStringTok(toks[3])
  /\ toks[4] = Quote(<<"text">>)
  /\ IsStringTok(toks[5])
  /\ toks[6] = Quote(<<"completed">>)
  /\ IsBoolTok(toks[7])
  /\ toks[8] = <<"}">>

ParseTodo(toks) == Todo(Unquote(toks[3]), Unquote(toks[5]), toks[7] = <<"true">>)

\* The elements between '[' and ']': ok is FALSE where JSON.parse throws.
RECURSIVE ParseItems(_)
ParseItems(toks) ==
  IF Len(toks) = 0 THEN [ok |-> TRUE, items |-> <<>>]
  ELSE IF Len(toks) < TodoTokens \/ ~IsTodoText(SubSeq(toks, 1, TodoTokens))
    THEN [ok |-> FALSE, items |-> <<>>]
  ELSE IF Len(toks) = TodoTokens
    THEN [ok |-> TRUE, items |-> <<ParseTodo(SubSeq(toks, 1, TodoTokens))>>]
  ELSE IF toks[TodoTokens + 1] # <<",">> \/ Len(toks) = TodoTokens + 1
    THEN [ok |-> FALSE, items |-> <<>>]
  ELSE LET rest == ParseItems(SubSeq(toks, TodoTokens + 2, Len(toks)))
       IN  [ok |-> rest.ok,
            items |-> IF rest.ok
                        THEN <<ParseTodo(SubSeq(toks, 1, TodoTokens))>> \o rest.items
                        ELSE <<>>]

\* JSON.parse: ok is FALSE where it throws a SyntaxError.
JSONparse(text) ==
  IF text = << <<"null">> >> THEN [ok |-> TRUE, value |-> JsonNull]
  ELSE IF text = << <<"{">>, <<"}">> >> THEN [ok |-> TRUE, value |-> JsonObject]
  ELSE IF Len(text) >= 2 /\ text[1] = <<"[">> /\ text[Len(text)] = <<"]">>
    THEN LET r == ParseItems(SubSeq(text, 2, Len(text) - 1))
         IN  [ok |-> r.ok, value |-> Arr(r.items)]
  ELSE [ok |-> FALSE, value |-> JsonNull]

-----------------------------------------------------------------------------
\* Derived values of a render

\* filteredTodos with the kept tasks collected in reverse
RECURSIVE FilterBy_Reversed(_, _)
FilterBy_Reversed(items, f) ==
  IF Len(items) = 0 THEN <<>>
  ELSE LET t == Head(items)
           keep == IF f = "active" THEN ~t.completed
                   ELSE IF f = "completed" THEN t.completed
                   ELSE TRUE
       IN  FilterBy_Reversed(Tail(items), f) \o (IF keep THEN <<t>> ELSE <<>>)

\* Array.prototype.filter with the predicate of filteredTodos
RECURSIVE FilterBy(_, _)
FilterBy(items, f) ==
  IF Len(items) = 0 THEN <<>>
  ELSE LET t == Head(items)
           keep == IF f = "active" THEN ~t.completed
                   ELSE IF f = "completed" THEN t.completed
                   ELSE TRUE
       IN  (IF keep THEN <<t>> ELSE <<>>) \o FilterBy(Tail(items), f)

filteredTodos == FilterBy(todos.items, filter)

\* activeCount counted over the rows on screen
activeCount_OfView == Len(FilterBy(filteredTodos, "active"))

\* todos.filter(t => !t.completed).length
activeCount == Len(FilterBy(todos.items, "active"))

\* todos.filter is not callable on a value that is not an array: the render
\* throws and the component is gone.
RenderThrows(v) == v.kind # "array"

Mounted == ~RenderThrows(todos)

\* The user can reach the controls of the screen.
Interactive == Mounted /\ ~alert.open

NoAlert == [open |-> FALSE, todos |-> Arr(<<>>)]

-----------------------------------------------------------------------------
\* Storage requests

\* A request in flight: what AsyncStorage was asked, and the async function
\* that awaits it (cont), with the intent that called it (by, and the id it
\* was called with) and the array it sets once the request has resolved.
GetItem(key, cont) ==
  [op |-> "getItem", key |-> key, value |-> NullItem, newTodos |-> Arr(<<>>),
   cont |-> cont, by |-> "load", arg |-> <<>>]

SetItem(key, value, newTodos, cont, by, arg) ==
  [op |-> "setItem", key |-> key, value |-> value, newTodos |-> newTodos,
   cont |-> cont, by |-> by, arg |-> arg]

LoadDone == \A i \in 1..Len(queue) : queue[i].op # "getItem"

NoWriteInFlight == \A i \in 1..Len(queue) : queue[i].op # "setItem"

\* What was on the device when the application was installed or last left.
InitialTodoItems ==
  { NullItem,
    JSONstringify(Arr(<<Todo(<<"0">>, <<"a">>, FALSE)>>)),
    JSONstringify(Arr(<<Todo(<<"0">>, <<"a">>, TRUE)>>)),
    JSONstringify(Arr(<<Todo(<<"0">>, <<" ">>, FALSE)>>)),
    << <<"[">>, <<"{">> >>,
    JSONstringify(JsonNull),
    JSONstringify(JsonObject) }

InitialThemeItems == { NullItem, << <<"dark">> >>, << <<"light">> >>, << <<"blue">> >> }

Device(todoItem, themeItem) ==
  [key \in {STORAGE_KEY, THEME_KEY} |-> IF key = STORAGE_KEY THEN todoItem ELSE themeItem]

InitialStores ==
  { Device(t, NullItem) : t \in InitialTodoItems }
    \cup { Device(NullItem, th) : th \in InitialThemeItems }
    \cup { Device(t, << <<"dark">> >>) :
              t \in { << <<"[">>, <<"{">> >>,
                      JSONstringify(Arr(<<Todo(<<"0">>, <<"a">>, FALSE)>>)) } }

-----------------------------------------------------------------------------
\* Mount

Mount ==
  /\ todos = Arr(<<>>)
  /\ isDark = FALSE
  /\ input = <<>>
  /\ filter = "all"
  /\ queue = <<GetItem(STORAGE_KEY, "loadTodos")>>
  /\ saved = NullItem
  /\ alert = NoAlert
  /\ errors = 0
  /\ unhandled = FALSE
  /\ last = "mount"
  /\ issued = 0

Init ==
  /\ Mount
  /\ now = 1
  /\ store \in InitialStores

LogError == errors' = IF errors < MaxErrors THEN errors + 1 ELSE errors

\* saveTodos guarded by a flag set while a write is awaited: a call made
\* meanwhile returns without writing
saveTodos_SkipsWhileSaving(newTodos, by, arg) ==
  /\ queue' = IF \A i \in 1..Len(queue) : queue[i].cont # "saveTodos"
                THEN Append(queue, SetItem(STORAGE_KEY, JSONstringify(newTodos),
                                           newTodos, "saveTodos", by, arg))
                ELSE queue
  /\ issued' = issued + 1

\* saveTodos up to its await: the request carries the text and the array
\* that is set once the write has resolved.
saveTodos(newTodos, by, arg) ==
  /\ queue' = Append(queue, SetItem(STORAGE_KEY, JSONstringify(newTodos), newTodos,
                                      "saveTodos", by, arg))
  /\ issued' = issued + 1

\* The writes of a session are counted, and the session is cut at MaxIntents.
CanIssue == issued < MaxIntents

-----------------------------------------------------------------------------
\* Intents

\* Date.now(): a reading of the clock is never before the previous reading,
\* and need not be after it.
ClockReadings == { t \in now..MaxTime : t <= now + 1 }

\* newTodo with the text taken as typed
newTodo_Untrimmed(text, t) == Todo(NumberToString(t), text, FALSE)

newTodo(text, t) == Todo(NumberToString(t), Trim(text), FALSE)

\* addTodo with the guard 'if (!input) return', which lets blank text through
addTodo_NoTrimGuard(text) ==
  /\ Interactive
  /\ IF Len(text) = 0
       THEN /\ input' = text
            /\ last' = "addEmpty"
            /\ UNCHANGED <<queue, issued, now>>
       ELSE /\ CanIssue
            /\ \E t \in ClockReadings :
                 /\ now' = t
                 /\ saveTodos(Arr(Append(todos.items, newTodo(text, t))), "add", <<>>)
            /\ input' = <<>>
            /\ last' = "request"
  /\ UNCHANGED <<todos, isDark, filter, store, saved, alert, errors, unhandled>>

\* onChangeText={setInput} with the text the user typed, then
\* onSubmitEditing={addTodo} (or the '+' button).
addTodo(text) ==
  /\ Interactive
  /\ IF Len(Trim(text)) = 0
       THEN /\ input' = text
            /\ last' = "addEmpty"
            /\ UNCHANGED <<queue, issued, now>>
       ELSE /\ CanIssue
            /\ \E t \in ClockReadings :
                 /\ now' = t
                 /\ saveTodos(Arr(Append(todos.items, newTodo(text, t))), "add", <<>>)
            /\ input' = <<>>
            /\ last' = "request"
  /\ UNCHANGED <<todos, isDark, filter, store, saved, alert, errors, unhandled>>

\* todos.map(t => (t.id === id ? { ...t, completed: !t.completed } : t))
MapToggle(items, id) ==
  [i \in 1..Len(items) |->
     IF items[i].id = id
       THEN Todo(items[i].id, items[i].text, ~items[i].completed)
       ELSE items[i]]

\* todos.filter(t => t.id !== id)
RECURSIVE FilterNotId(_, _)
FilterNotId(items, id) ==
  IF Len(items) = 0 THEN <<>>
  ELSE (IF Head(items).id # id THEN <<Head(items)>> ELSE <<>>)
       \o FilterNotId(Tail(items), id)

\* The ids an intent can name: those of the tasks in the list, and one that
\* no task has unless it came from the device.
Ids == { todos.items[i].id : i \in 1..Len(todos.items) } \cup { NumberToString(0) }

toggleComplete(id) ==
  /\ Interactive
  /\ CanIssue
  /\ saveTodos(Arr(MapToggle(todos.items, id)), "toggle", id)
  /\ last' = "request"
  /\ UNCHANGED <<todos, isDark, input, filter, store, saved, now, alert,
                 errors, unhandled>>

deleteTodo(id) ==
  /\ Interactive
  /\ CanIssue
  /\ saveTodos(Arr(FilterNotId(todos.items, id)), "delete", id)
  /\ last' = "request"
  /\ UNCHANGED <<todos, isDark, input, filter, store, saved, now, alert,
                 errors, unhandled>>

\* The 'Clear Completed' button is rendered while some task is completed; the
\* alert's buttons keep the todos of the render that opened it.
clearCompleted ==
  /\ Interactive
  /\ \E i \in 1..Len(todos.items) : todos.items[i].completed
  /\ alert' = [open |-> TRUE, todos |-> todos]
  /\ last' = "clearAsk"
  /\ UNCHANGED <<todos, isDark, input, filter, store, queue, saved, now,
                 errors, unhandled, issued>>

\* 'Cancel' wired to the handler of 'Clear'
AlertCancel_Clears ==
  /\ alert.open
  /\ CanIssue
  /\ saveTodos(Arr(FilterBy(alert.todos.items, "active")), "clear", <<>>)
  /\ alert' = NoAlert
  /\ last' = "clearCancel"
  /\ UNCHANGED <<todos, isDark, input, filter, store, saved, now, errors, unhandled>>

\* { text: 'Cancel', style: 'cancel' }: the alert closes, nothing is called
AlertCancel ==
  /\ alert.open
  /\ alert' = NoAlert
  /\ last' = "clearCancel"
  /\ UNCHANGED <<todos, isDark, input, filter, store, queue, saved, now,
                 errors, unhandled, issued>>

AlertClear ==
  /\ alert.open
  /\ CanIssue
  /\ saveTodos(Arr(FilterBy(alert.todos.items, "active")), "clear", <<>>)
  /\ alert' = NoAlert
  /\ last' = "request"
  /\ UNCHANGED <<todos, isDark, input, filter, store, saved, now, errors, unhandled>>

\* setFilter followed by a write of the chosen filter
SetFilter_Persisted(f) ==
  /\ Interactive
  /\ CanIssue
  /\ Len(todos.items) > 0
  /\ filter # f
  /\ filter' = f
  /\ queue' = Append(queue, SetItem("@filter", << <<f>> >>, Arr(<<>>), "theme",
                                    "filter", <<>>))
  /\ issued' = issued + 1
  /\ UNCHANGED last
  /\ UNCHANGED <<todos, isDark, input, store, saved, now, alert, errors, unhandled>>

\* The filter tabs are rendered while todos.length > 0.
SetFilter(f) ==
  /\ Interactive
  /\ Len(todos.items) > 0
  /\ filter # f
  /\ filter' = f
  /\ UNCHANGED last
  /\ UNCHANGED <<todos, isDark, input, store, queue, saved, now, alert,
                 errors, unhandled, issued>>

\* DraggableFlatList: the data with the dragged row moved from one index to another.
Move(items, from, to) ==
  LET without == SubSeq(items, 1, from - 1) \o SubSeq(items, from + 1, Len(items))
  IN  SubSeq(without, 1, to - 1) \o <<items[from]>> \o SubSeq(without, to, Len(without))

\* onDragEnd={({ data }) => saveTodos(data)}, data being the rows of filteredTodos
onDragEnd(from, to) ==
  /\ Interactive
  /\ CanIssue
  /\ from \in 1..Len(filteredTodos)
  /\ to \in 1..Len(filteredTodos)
  /\ saveTodos(Arr(Move(filteredTodos, from, to)), "reorder", <<>>)
  /\ last' = "request"
  /\ UNCHANGED <<todos, isDark, input, filter, store, saved, now, alert,
                 errors, unhandled>>

\* handleThemeToggle writing under the key of the task list
handleThemeToggle_WrongKey ==
  /\ Interactive
  /\ CanIssue
  /\ isDark' = ~isDark
  /\ queue' = Append(queue, SetItem(STORAGE_KEY,
                 IF ~isDark THEN << <<"dark">> >> ELSE << <<"light">> >>,
                 Arr(<<>>), "theme", "theme", <<>>))
  /\ issued' = issued + 1
  /\ last' = "request"
  /\ UNCHANGED <<todos, input, filter, store, saved, now, alert, errors, unhandled>>

handleThemeToggle ==
  /\ Interactive
  /\ CanIssue
  /\ isDark' = ~isDark
  /\ queue' = Append(queue, SetItem(THEME_KEY,
                 IF ~isDark THEN << <<"dark">> >> ELSE << <<"light">> >>,
                 Arr(<<>>), "theme", "theme", <<>>))
  /\ issued' = issued + 1
  /\ last' = "request"
  /\ UNCHANGED <<todos, input, filter, store, saved, now, alert, errors, unhandled>>

-----------------------------------------------------------------------------
\* Storage requests settling, oldest first

Settles(cont) == Len(queue) > 0 /\ Head(queue).cont = cont

\* const saved = await AsyncStorage.getItem(STORAGE_KEY), then the next getItem
LoadTodosResolved ==
  /\ Settles("loadTodos")
  /\ saved' = store[STORAGE_KEY]
  /\ queue' = Append(Tail(queue), GetItem(THEME_KEY, "loadTheme"))
  /\ UNCHANGED last
  /\ UNCHANGED <<todos, isDark, input, filter, store, now, alert, errors, unhandled, issued>>

LoadTodosRejected ==
  /\ Settles("loadTodos")
  /\ errors < MaxErrors
  /\ LogError
  /\ queue' = Tail(queue)
  /\ UNCHANGED last
  /\ UNCHANGED <<todos, isDark, input, filter, store, saved, now, alert, unhandled, issued>>

\* A string is truthy unless it is empty.
Truthy(item) == item # NullItem /\ Len(item) > 0

\* The load with the theme test 'if (savedTheme) setIsDark(true)'
LoadThemeResolved_AnyString ==
  /\ Settles("loadTheme")
  /\ LET savedTheme == store[THEME_KEY]
         parsed == JSONparse(saved)
     IN  IF Truthy(saved) /\ ~parsed.ok
           THEN /\ LogError
                /\ UNCHANGED <<todos, isDark>>
           ELSE /\ todos' = IF Truthy(saved) THEN parsed.value ELSE todos
                /\ isDark' = IF Truthy(savedTheme) THEN TRUE ELSE isDark
                /\ UNCHANGED errors
  /\ queue' = Tail(queue)
  /\ UNCHANGED last
  /\ UNCHANGED <<input, filter, store, saved, now, alert, unhandled, issued>>

\* const savedTheme = await AsyncStorage.getItem(THEME_KEY);
\* if (saved) setTodos(JSON.parse(saved)); if (savedTheme === 'dark') setIsDark(true);
LoadThemeResolved ==
  /\ Settles("loadTheme")
  /\ LET savedTheme == store[THEME_KEY]
         parsed == JSONparse(saved)
     IN  IF Truthy(saved) /\ ~parsed.ok
           THEN /\ LogError
                /\ UNCHANGED <<todos, isDark>>
           ELSE /\ todos' = IF Truthy(saved) THEN parsed.value ELSE todos
                /\ isDark' = IF savedTheme = << <<"dark">> >> THEN TRUE ELSE isDark
                /\ UNCHANGED errors
  /\ queue' = Tail(queue)
  /\ UNCHANGED last
  /\ UNCHANGED <<input, filter, store, saved, now, alert, unhandled, issued>>

LoadThemeRejected ==
  /\ Settles("loadTheme")
  /\ errors < MaxErrors
  /\ LogError
  /\ queue' = Tail(queue)
  /\ UNCHANGED last
  /\ UNCHANGED <<todos, isDark, input, filter, store, saved, now, alert, unhandled, issued>>

\* saveTodos setting the list of the newest call (kept in a shared ref)
\* when a write resolves
SaveTodosResolved_SetsNewest ==
  /\ Settles("saveTodos")
  /\ store' = [store EXCEPT ![Head(queue).key] = Head(queue).value]
  /\ todos' = IF Mounted
                THEN LET writes == { i \in 1..Len(queue) : queue[i].cont = "saveTodos" }
                         newest == CHOOSE i \in writes : \A j \in writes : j <= i
                     IN  queue[newest].newTodos
                ELSE todos
  /\ queue' = Tail(queue)
  /\ UNCHANGED last
  /\ UNCHANGED <<isDark, input, filter, saved, now, alert, errors, unhandled, issued>>

\* await AsyncStorage.setItem(...) resolved; setTodos(newTodos), which sets
\* nothing once the component is gone
SaveTodosResolved ==
  /\ Settles("saveTodos")
  /\ store' = [store EXCEPT ![Head(queue).key] = Head(queue).value]
  /\ todos' = IF Mounted THEN Head(queue).newTodos ELSE todos
  /\ queue' = Tail(queue)
  /\ UNCHANGED last
  /\ UNCHANGED <<isDark, input, filter, saved, now, alert, errors, unhandled, issued>>

\* saveTodos with setTodos(newTodos) before the await
SaveTodosRejected_Optimistic ==
  /\ Settles("saveTodos")
  /\ errors < MaxErrors
  /\ LogError
  /\ todos' = Head(queue).newTodos
  /\ queue' = Tail(queue)
  /\ last' = "writeFailed"
  /\ UNCHANGED <<isDark, input, filter, store, saved, now, alert, unhandled, issued>>

\* await AsyncStorage.setItem(...) rejected; console.error(e)
SaveTodosRejected ==
  /\ Settles("saveTodos")
  /\ errors < MaxErrors
  /\ LogError
  /\ queue' = Tail(queue)
  /\ last' = "writeFailed"
  /\ UNCHANGED <<todos, isDark, input, filter, store, saved, now, alert, unhandled, issued>>

ThemeWriteResolved ==
  /\ Settles("theme")
  /\ store' = [store EXCEPT ![Head(queue).key] = Head(queue).value]
  /\ queue' = Tail(queue)
  /\ UNCHANGED last
  /\ UNCHANGED <<todos, isDark, input, filter, saved, now, alert, errors, unhandled, issued>>

\* handleThemeToggle has no try/catch around its await.
ThemeWriteRejected ==
  /\ Settles("theme")
  /\ ~unhandled
  /\ unhandled' = TRUE
  /\ queue' = Tail(queue)
  /\ UNCHANGED last
  /\ UNCHANGED <<todos, isDark, input, filter, store, saved, now, alert, errors, issued>>

Next ==
  \/ \E text \in Inputs : addTodo(text)
  \/ \E id \in Ids : toggleComplete(id)
  \/ \E id \in Ids : deleteTodo(id)
  \/ clearCompleted
  \/ AlertCancel
  \/ AlertClear
  \/ \E f \in {"all", "active", "completed"} : SetFilter(f)
  \/ \E from \in 1..Len(filteredTodos), to \in 1..Len(filteredTodos) : onDragEnd(from, to)
  \/ handleThemeToggle
  \/ LoadTodosResolved
  \/ LoadTodosRejected
  \/ LoadThemeResolved
  \/ LoadThemeRejected
  \/ SaveTodosResolved
  \/ SaveTodosRejected
  \/ ThemeWriteResolved
  \/ ThemeWriteRejected

Spec == Init /\ [][Next]_vars

\* The app opened again on a device where an earlier session added 'b' twice
\* within one reading of the clock: '@todos' holds what that session's last
\* write left, the clock has moved on.
ResumedStores ==
  { Device(JSONstringify(Arr(<<newTodo(<<"b">>, 1), newTodo(<<"b">>, 1)>>)),
           NullItem) }

InitResumed ==
  /\ Mount
  /\ now = MaxTime
  /\ store \in ResumedStores

SpecResumed == InitResumed /\ [][Next]_vars

-----------------------------------------------------------------------------
\* Properties

IdSet(items) == { items[i].id : i \in 1..Len(items) }

IsSaveTodos(req) == req.cont = "saveTodos"

\* C1: no two tasks of the in-memory task list have the same id.
C1_UniqueIds ==
  \A i, j \in 1..Len(todos.items) :
    i # j => todos.items[i].id # todos.items[j].id

\* C2: a drag-end payload whose id set is not the id set of the current task
\* list (the rows of a filtered view) is ignored: no write is issued for it, so
\* the in-memory list and the item stored under '@todos' stay what they were.
C2_MismatchedReorderIgnored ==
  [][ \A from, to \in 1..Len(filteredTodos) :
        (onDragEnd(from, to) /\ IdSet(filteredTodos) # IdSet(todos.items))
          => UNCHANGED <<todos, store, queue>> ]_vars

\* C3: a task leaves the in-memory list only by a delete called with its own
\* id, or by a confirmed clearCompleted while it is completed.
C3_LeavesOnlyByDeleteOrClear ==
  [][ \A i \in 1..Len(todos.items) :
        ( /\ Mounted
          /\ ~RenderThrows(todos')
          /\ todos.items[i].id \notin IdSet(todos'.items) )
        => /\ SaveTodosResolved
           /\ \/ Head(queue).by = "delete" /\ Head(queue).arg = todos.items[i].id
              \/ Head(queue).by = "clear" /\ todos.items[i].completed ]_vars

\* The array a mutation gives when it is applied to the array base.
AppliedTo(req, base) ==
  CASE req.by = "add" ->
         /\ Len(req.newTodos.items) = Len(base) + 1
         /\ SubSeq(req.newTodos.items, 1, Len(base)) = base
    [] req.by = "toggle" -> req.newTodos.items = MapToggle(base, req.arg)
    [] req.by = "delete" -> req.newTodos.items = FilterNotId(base, req.arg)
    [] OTHER -> TRUE

\* C4: of two mutations issued back to back, the second is applied to the
\* result of the first, so that the list set by the second write reflects both.
C4_SecondMutationSeesFirst ==
  \A i \in 1..(Len(queue) - 1) :
    (IsSaveTodos(queue[i]) /\ IsSaveTodos(queue[i + 1]))
      => AppliedTo(queue[i + 1], queue[i].newTodos.items)

\* The only write of '@todos' in flight is the oldest request.
OnlyWriteInFlight ==
  /\ Len(queue) > 0
  /\ \A i \in 2..Len(queue) : ~IsSaveTodos(queue[i])

Issues == issued' = issued + 1

Reloaded(item) ==
  IF Truthy(item) /\ JSONparse(item).ok THEN JSONparse(item).value ELSE Arr(<<>>)

\* C6: when the load has completed, no write is in flight and no request has
\* failed, the item stored under '@todos' reloads to the in-memory task list.
C6_StoreEqualsMemory ==
  (LoadDone /\ NoWriteInFlight /\ errors = 0 /\ ~unhandled /\ Mounted)
    => Reloaded(store[STORAGE_KEY]) = todos

\* The item does not hold an array of tasks.
Malformed(item) ==
  \/ ~Truthy(item)
  \/ ~JSONparse(item).ok
  \/ JSONparse(item).value.kind # "array"

\* C7: after a load of a missing or malformed item the task list is the empty
\* sequence and the render does not throw.
C7_MalformedLoadsEmpty ==
  (LoadDone /\ issued = 0 /\ Malformed(saved))
    => todos = Arr(<<>>) /\ ~RenderThrows(todos)

Blank(text) == Len(Trim(text)) = 0

\* C8: add with a text that is empty after trimming leaves the task list
\* unchanged, issues no write and leaves the stored item unchanged.
C8_BlankAddIsNoop ==
  [][ \A text \in Inputs :
        (addTodo(text) /\ Blank(text)) => UNCHANGED <<todos, queue, store, issued>> ]_vars

\* Text of spaces only has been submitted while the list held a task.
C8_Witness ==
  /\ last = "addEmpty"
  /\ Len(input) > 0
  /\ Len(todos.items) > 0

C10_NoBlankText ==
  \A i \in 1..Len(todos.items) : ~Blank(todos.items[i].text)

\* C11: toggleComplete(id) and deleteTodo(id) with an id that no task has
\* leave the in-memory list (and with it the derived view) as it was, also
\* when an earlier mutation's write was in flight at the call: when the
\* request of such a call resolves, the list does not change.
C11_UnknownIdIsNoop ==
  [][ ( /\ SaveTodosResolved
        /\ Mounted
        /\ Head(queue).by \in {"toggle", "delete"}
        /\ Head(queue).arg \notin IdSet(todos.items)
        /\ Head(queue).arg \notin IdSet(Head(queue).newTodos.items) )
      => /\ todos' = todos
         /\ filteredTodos' = filteredTodos ]_vars

Filters == {"all", "active", "completed"}

\* The task t belongs to the view of filter f.
Keeps(t, f) ==
  \/ f = "all"
  \/ f = "active" /\ t.completed = FALSE
  \/ f = "completed" /\ t.completed = TRUE

Selected(items, f) == { i \in 1..Len(items) : Keeps(items[i], f) }

\* view lists the tasks of items at the positions S, each once, in the order
\* of their positions.
IsOrderedSelection(view, items, S) ==
  /\ Len(view) = Cardinality(S)
  /\ \E pos \in [1..Len(view) -> S] :
       /\ \A k, l \in 1..Len(view) : k < l => pos[k] < pos[l]
       /\ \A k \in 1..Len(view) : view[k] = items[pos[k]]

\* C12: for the in-memory list and every filter, the derived view is the
\* subsequence of the list, in the list's order, of exactly the tasks the
\* filter selects: all of them, those not completed, those completed.
C12_ViewIsOrderedSelection ==
  Mounted =>
    /\ \A f \in Filters :
         IsOrderedSelection(FilterBy(todos.items, f), todos.items,
                            Selected(todos.items, f))
    /\ filteredTodos = FilterBy(todos.items, filter)

\* A list of two tasks or more is on screen under a filter that keeps some
\* of them and drops others.
C12_Witness ==
  /\ Mounted
  /\ Len(todos.items) >= 2
  /\ filter # "all"
  /\ Len(filteredTodos) >= 1
  /\ Len(filteredTodos) < Len(todos.items)

\* C13: under every filter, activeCount is the number of tasks of the
\* unfiltered in-memory list with completed = false.
C13_ActiveCountOfFullList ==
  Mounted =>
    activeCount = Cardinality({ i \in 1..Len(todos.items) :
                                  todos.items[i].completed = FALSE })

\* The screen shows the completed tasks only while some task is active.
C13_Witness ==
  /\ Mounted
  /\ filter = "completed"
  /\ Len(filteredTodos) >= 1
  /\ activeCount >= 1

\* C14: the 'Clear' choice removes every task that is completed in the list
\* at the time of the choice and keeps the others in their order: the list
\* it writes is the in-memory list of that moment without its completed
\* tasks.
C14_ClearsListAtConfirmation ==
  [][ AlertClear =>
        queue'[Len(queue')].newTodos = Arr(FilterBy(todos.items, "active")) ]_vars

\* C15: requesting clearCompleted and choosing Cancel change neither the
\* in-memory list nor the stored items and issue no write; while the prompt
\* is open nothing but the 'Clear' choice issues a write, and a write of a
\* cleared list is issued by the 'Clear' choice only.
C15_NothingClearedBeforeConfirm ==
  [][ /\ (clearCompleted \/ AlertCancel) =>
           UNCHANGED <<todos, store, queue, issued>>
      /\ (alert.open /\ Issues) => AlertClear
      /\ ( /\ Len(queue') > Len(queue)
           /\ queue'[Len(queue')].by = "clear" ) => AlertClear ]_vars

\* The prompt was answered with Cancel: the completed task is still in the
\* list and in the stored item, and no request is in flight.
C15_Witness ==
  /\ last = "clearCancel"
  /\ Mounted
  /\ \E i \in 1..Len(todos.items) : todos.items[i].completed
  /\ store[STORAGE_KEY] = JSONstringify(todos)
  /\ queue = <<>>
  /\ issued = 0

Dark == << <<"dark">> >>

\* C16: the load turns the theme dark only for the stored string "dark":
\* reading an absent item or any other string leaves isDark as it is, so
\* once the load has ended and the theme has not been toggled isDark is
\* false.
C16_LightUnlessDark ==
  /\ [][ (LoadThemeResolved /\ store[THEME_KEY] # Dark) => isDark' = isDark ]_vars
  /\ [](( LoadDone /\ issued = 0 /\ store[THEME_KEY] # Dark ) => isDark = FALSE)

\* The load has read "light" or another string that is not "dark", without
\* an error, and no intent was issued.
C16_Witness ==
  /\ LoadDone
  /\ issued = 0
  /\ errors = 0
  /\ store[THEME_KEY] \notin { Dark, NullItem }
  /\ isDark = FALSE

\* C17: with the screen up, once the load and every write have completed
\* without a failure, the string stored under '@theme' is "dark" exactly when isDark is true.
C17_StoredThemeIsShownTheme ==
  ( Mounted /\ LoadDone /\ queue = <<>> /\ errors = 0 /\ ~unhandled )
    => (store[THEME_KEY] = Dark <=> isDark = TRUE)

\* C18: toggleComplete(id) for an id in the list builds a list of the same
\* length in which one task, at its place and with its id and text, has its
\* completed flag flipped and every other task is as it was; toggling that
\* list again gives the original.
C18_TogglesOneTask ==
  [][ \A id \in Ids :
        (toggleComplete(id) /\ id \in IdSet(todos.items)) =>
          LET snap == queue'[Len(queue')].newTodos.items
              items == todos.items
          IN  /\ Len(snap) = Len(items)
              /\ Cardinality({ i \in 1..Len(items) : snap[i] # items[i] }) = 1
              /\ \A i \in 1..Len(items) :
                   /\ snap[i].id = items[i].id
                   /\ snap[i].text = items[i].text
                   /\ snap[i] # items[i] =>
                        /\ items[i].id = id
                        /\ snap[i].completed = ~items[i].completed
              /\ MapToggle(snap, id) = items ]_vars

\* C19: deleteTodo(id) for an id in the list builds a list one task shorter,
\* without a task of that id, the remaining tasks as they were and in their
\* order.
C19_DeletesOneTask ==
  [][ \A id \in Ids :
        (deleteTodo(id) /\ id \in IdSet(todos.items)) =>
          LET snap == queue'[Len(queue')].newTodos.items
              items == todos.items
          IN  /\ Len(snap) = Len(items) - 1
              /\ id \notin IdSet(snap)
              /\ IsOrderedSelection(snap, items,
                   { i \in 1..Len(items) : items[i].id # id }) ]_vars

\* C20: no storage failure leaves an intent handler as an unhandled
\* rejection.
C20_NoUnhandledRejection == unhandled = FALSE

Light == << <<"light">> >>

\* C21: setFilter(f) sets the filter and nothing else: the in-memory list,
\* isDark and both stored items are unchanged and no write is issued. No
\* request writes the filter (a write is the list under '@todos' or the
\* theme under '@theme'), and at start-up the filter is 'all' whatever the
\* device holds.
C21_SetFilterOnlySetsFilter ==
  /\ [][ \A f \in Filters :
           SetFilter(f) =>
             /\ filter' = f
             /\ UNCHANGED <<todos, isDark, store, queue, issued>> ]_vars
  /\ [](\A i \in 1..Len(queue) :
          queue[i].op = "setItem" =>
            \/ queue[i].key = STORAGE_KEY /\ queue[i].value = JSONstringify(queue[i].newTodos)
            \/ queue[i].key = THEME_KEY /\ queue[i].value \in { Dark, Light })
  /\ []((Settles("loadTodos") /\ issued = 0) => filter = "all")

\* A filter other than 'all' was chosen over a loaded list, and nothing was
\* written.
C21_Witness ==
  /\ Mounted
  /\ filter # "all"
  /\ Len(todos.items) > 0
  /\ store[STORAGE_KEY] = JSONstringify(todos)
  /\ queue = <<>>
  /\ issued = 0

C23_DarkLoadsDark ==
  [][ (LoadThemeResolved /\ store[THEME_KEY] = Dark) => isDark' = TRUE ]_vars

\* The tasks of the array an item reloads to.
TasksOf(item) == { Reloaded(item).items[i] : i \in 1..Len(Reloaded(item).items) }

\* C24: with one intent issued in the session, also before the load has
\* ended: once the load and the write have completed without a failure the
\* in-memory list is what the stored item reloads to, and when the write of
\* an add resolves with the load ended, the tasks the device held at
\* start-up are in the list together with the new one.
C24_LoadKeepsEarlyMutation ==
  /\ []( ( Mounted /\ LoadDone /\ queue = <<>> /\ errors = 0 /\ ~unhandled
           /\ issued = 1 )
         => todos = Reloaded(store[STORAGE_KEY]) )
  /\ [][ ( /\ SaveTodosResolved
           /\ Mounted
           /\ LoadDone
           /\ Head(queue).by = "add"
           /\ issued = 1
           /\ errors = 0 )
         => /\ TasksOf(saved) \subseteq { todos'.items[i] : i \in 1..Len(todos'.items) }
            /\ Len(todos'.items) = Len(Reloaded(saved).items) + 1 ]_vars

\* C25: the in-memory list is the initial empty list, the value the load
\* read from '@todos', or the snapshot of the last write of '@todos' that
\* has resolved, which is what the stored item holds; it changes only when
\* the load or a write resolves, and a rejected write leaves the in-memory
\* list and the stored items as they were.
C25_MemoryNeverAheadOfStore ==
  /\ [](\/ todos = Arr(<<>>)
        \/ Truthy(saved) /\ JSONparse(saved).ok /\ todos = JSONparse(saved).value
        \/ store[STORAGE_KEY] = JSONstringify(todos))
  /\ [][ /\ todos' # todos => (LoadThemeResolved \/ SaveTodosResolved)
         /\ SaveTodosRejected => UNCHANGED <<todos, store>> ]_vars

\* The list in memory is the snapshot of a resolved write, with a later
\* write of another snapshot still in flight.
C25_Witness ==
  /\ Mounted
  /\ LoadDone
  /\ Len(todos.items) >= 1
  /\ store[STORAGE_KEY] = JSONstringify(todos)
  /\ ~(Truthy(saved) /\ JSONparse(saved).ok /\ todos = JSONparse(saved).value)
  /\ Len(queue) = 1
  /\ IsSaveTodos(queue[1])
  /\ queue[1].newTodos # todos

\* The steps of the task intents and of the filter.
TaskStep ==
  \/ \E text \in Inputs : addTodo(text)
  \/ \E id \in Ids : toggleComplete(id)
  \/ \E id \in Ids : deleteTodo(id)
  \/ \E from \in 1..Len(filteredTodos), to \in 1..Len(filteredTodos) : onDragEnd(from, to)
  \/ clearCompleted
  \/ AlertCancel
  \/ AlertClear
  \/ \E f \in Filters : SetFilter(f)
  \/ SaveTodosResolved
  \/ SaveTodosRejected

\* The steps of the theme toggle.
ThemeStep == handleThemeToggle \/ ThemeWriteResolved \/ ThemeWriteRejected

\* C26: add, toggleComplete, delete, reorder, clearCompleted and setFilter,
\* with their writes, never change isDark or the item under '@theme'; the
\* theme toggle, with its write, never changes the task list, the filter or
\* the item under '@todos'.
C26_TasksAndThemeApart ==
  [][ /\ TaskStep => /\ isDark' = isDark
                     /\ store'[THEME_KEY] = store[THEME_KEY]
      /\ ThemeStep => /\ todos' = todos
                      /\ filter' = filter
                      /\ store'[STORAGE_KEY] = store[STORAGE_KEY] ]_vars

\* The theme was toggled and a task was changed, both writes resolved, each
\* item holding its own value.
C26_Witness ==
  /\ Mounted
  /\ isDark = TRUE
  /\ store[THEME_KEY] = Dark
  /\ Len(todos.items) >= 1
  /\ store[STORAGE_KEY] = JSONstringify(todos)
  /\ queue = <<>>
  /\ issued = 2
  /\ filter # "all"

====
